---- MODULE Spec2Model ----
(***************************************************************************)
(* gitgraph: commit-history cache, fetch policy and weekly aggregation.    *)
(*                                                                         *)
(* One process executes run() once; the cache file outlives the process.   *)
(* Spec models any sequence of runs over one cache file.  SpecAgg applies  *)
(* display()'s aggregation to bounded commit lists.                        *)
(* SpecTicks, SpecClean and SpecCache apply the tick function,             *)
(* cleanFilename and Save-Load-Save to bounded inputs.                     *)
(*                                                                         *)
(* Times are whole epoch seconds (git committer times have second          *)
(* precision); for such times now.Before(dt) is  now < dt  on the seconds. *)
(***************************************************************************)
EXTENDS Integers, Sequences, FiniteSets, TLC

\* ------------------------------------------------------------------ bounds
\* longest history the provider returns in Spec
MaxHistory == 2
\* longest commit list given to display() in SpecAgg
MaxCommits == 4
\* widest axis range given to the tick function in SpecTicks, in weeks
MaxWeeks == 27
\* longest display name built from NameChars in SpecClean
MaxNameLen == 3
\* longest commit list of a store in SpecCache
MaxTripLen == 2

\* --------------------------------------------------------------- constants
GroupSize == 604800

\* the three configured repositories (var urlLookup)
Daemon == "https://github.com/linuxdeepin/dde-daemon"
Dock == "https://github.com/linuxdeepin/dde-dock"
Shell == "https://github.com/linuxdeepin/dde-session-shell"
\* a key that a cache file may hold but the configuration does not
Stale == "https://github.com/linuxdeepin/removed"

ConfigNames == (Daemon :> "DDE Daemon") @@ (Dock :> "DDE Dock") @@ (Shell :> "DDE Session Shell")
Keys == DOMAIN ConfigNames

\* the value of the package variable urlLookup at process start
InitialLookup == [u \in Keys |-> [Name |-> ConfigNames[u], Commits |-> <<>>]]

\* commit times the provider and the initial cache files draw from in Spec
RunTimes == {GroupSize}
\* clock readings of display() in Spec
RunNows == {GroupSize - 1, 2 * GroupSize}

\* commit times and clock readings of SpecAgg
AggTimes == {-GroupSize - 1, -GroupSize, -1, 0, 86400, GroupSize, GroupSize + 3600}
AggNows == {-2, 86400, 100 * GroupSize}

RECURSIVE SeqsUpTo(_, _)
SeqsUpTo(S, n) == IF n = 0 THEN {<<>>}
                  ELSE LET shorter == SeqsUpTo(S, n - 1)
                       IN  shorter \cup {Append(s, x) : s \in {t \in shorter : Len(t) = n - 1}, x \in S}

\* histories a successful clone + log can return: the head commit is always
\* there, so a history is never empty
Histories == SeqsUpTo(RunTimes, MaxHistory) \ {<<>>}

VARIABLES
  pc,          \* position in run(): "start","fetch","render","done","error","panic"
  err,         \* which step returned the error run() returns ("none" if none)
  urlLookup,   \* the in-memory store, FileType
  file,        \* the cache file at loadFrom
  updated,     \* local variable updated of run()
  pending,     \* keys the range loop of line 107 has not visited yet
  clones,      \* per key, number of git.Clone calls in this run
  saves,       \* number of Save calls in this run
  toRender,    \* keys the range loop of line 143 has not visited yet
  rendered,    \* keys whose chart was written in this run
  cached,      \* keys whose commits were non-empty when Load returned
  persisted,   \* keys the cache file has held with non-empty commits so far
  everFilled,  \* keys whose in-memory commits were non-empty in an earlier run
  ch,          \* argument of the latest display() call
  now,         \* time.Now() of the latest display() call
  plot,        \* what the latest display() call computed
  snapshot,    \* local variable store of Load: the decoded cache file
  provided,    \* per key, the history the provider returned in this run
  partial,     \* keys whose in-memory commits come from a ForEach that failed
  tick,        \* a call of the xticks TickerFunc: its range and its result
  clean,       \* a display name and the results of cleanFilename on it
  trip         \* a store taken through Save, Load, Save

vars == <<pc, err, urlLookup, file, updated, pending, clones, saves, toRender,
          rendered, cached, persisted, everFilled, ch, now, plot, snapshot,
          provided, partial, tick, clean, trip>>

\* the variables run() does not touch
pureVars == <<tick, clean, trip>>

\* ------------------------------------------------------------- cache file
\* A cache file is absent, cannot be opened, does not decode, or decodes to
\* a JSON object: key -> null | {Name, Commits}.  A missing, null or empty
\* Commits member decodes to a slice of length 0.
NullEntry == [isNull |-> TRUE, Name |-> "", Commits |-> <<>>]
EmptyDoc == [k \in {} |-> NullEntry]
Absent == [kind |-> "absent", doc |-> EmptyDoc]
Unreadable == [kind |-> "unreadable", doc |-> EmptyDoc]
Corrupt == [kind |-> "corrupt", doc |-> EmptyDoc]
Doc(d) == [kind |-> "doc", doc |-> d]

\* json.Encoder.Encode(ft): every key of ft with its chart; a chart pointer
\* of the store is never nil
Encode(ft) == [key \in DOMAIN ft |-> [isNull |-> FALSE, Name |-> ft[key].Name, Commits |-> ft[key].Commits]]

\* entries a cache file found at the first run may hold for a key
InitEntries == {NullEntry,
                [isNull |-> FALSE, Name |-> "other", Commits |-> <<>>],
                [isNull |-> FALSE, Name |-> "other", Commits |-> <<GroupSize, 0>>]}
StaleEntry == [isNull |-> FALSE, Name |-> "removed", Commits |-> <<0>>]
InitDocs == UNION {[D -> InitEntries] : D \in SUBSET Keys}
            \cup UNION {{d @@ (Stale :> StaleEntry) : d \in [D -> InitEntries]} : D \in SUBSET Keys}
InitFiles == {Absent, Unreadable, Corrupt} \cup {Doc(d) : d \in InitDocs}

\* keys a cache file holds with at least one commit
FileHolds(f) == {u \in Keys : f.kind = "doc" /\ u \in DOMAIN f.doc /\ ~f.doc[u].isNull /\ Len(f.doc[u].Commits) > 0}

\* mutant of LoadFails: the decode error of line 60 is dropped
LoadFailsOpenOnly(f) == f.kind = "unreadable"

\* mutant of LoadFails: the os.IsNotExist test of line 50 is missing
LoadFailsAbsentToo(f) == f.kind \in {"absent", "unreadable", "corrupt"}

\* Load, line 48-54: os.Open fails with something else than "not exist";
\* line 59-62: Decode fails
LoadFails(f) == f.kind \in {"unreadable", "corrupt"}

\* keys of ft whose decoded chart pointer is nil (JSON null): line 68
\* dereferences it
NilKeys(ft, f) == {key \in DOMAIN ft : key \in DOMAIN f.doc /\ f.doc[key].isNull}

\* mutant of MergeKeys: line 68 is missing
MergeKeysNone(ft, store, S) == ft

\* mutant of MergeKeys: the file is decoded into ft itself, so every key of
\* the snapshot lands in the store
MergeKeysAll(ft, store, S) ==
  [key \in DOMAIN ft \cup DOMAIN store |->
     IF key \in DOMAIN store
     THEN [Name |-> store[key].Name, Commits |-> store[key].Commits]
     ELSE ft[key]]

\* Load, line 63-69: the range loop over ft, restricted to the keys in S
MergeKeys(ft, store, S) ==
  [key \in DOMAIN ft |->
     IF key \in S /\ key \in DOMAIN store
     THEN [ft[key] EXCEPT !.Commits = store[key].Commits]
     ELSE ft[key]]

\* mutant of Loaded: the loop of line 63-69 is missing
LoadedNoMerge(ft, f) == ft

\* Load returning nil: line 50-52 (file absent) or line 57-70
Loaded(ft, f) == IF f.kind = "absent" THEN ft ELSE MergeKeys(ft, f.doc, DOMAIN ft)

\* ---------------------------------------------------------------- display
\* Go's int64 division truncates toward zero (divisor > 0)
GoDiv(a, b) == IF a >= 0 THEN a \div b ELSE -((-a) \div b)

\* mutant of BucketStart: line 162 is missing, the key is the week number
BucketStartWeek(dt) == GoDiv(dt, GroupSize)

\* display, line 161-162
BucketStart(dt) == GoDiv(dt, GroupSize) * GroupSize

\* mutant of IsFuture: !now.After(dt) instead of now.Before(dt)
IsFutureOrNow(n, dt) == n <= dt

\* display, line 158: now.Before(dt)
IsFuture(n, dt) == n < dt

\* agg[b]++ on a Go map: a missing key counts from 0
Incr(agg, b) == IF b \in DOMAIN agg THEN [agg EXCEPT ![b] = @ + 1] ELSE agg @@ (b :> 1)

\* display, line 157-164: one iteration of the loop
AggStep(agg, n, dt) == IF IsFuture(n, dt) THEN agg ELSE Incr(agg, BucketStart(dt))

\* display, line 154-164
RECURSIVE AggFrom(_, _, _)
AggFrom(agg, n, commits) ==
  IF commits = <<>> THEN agg
  ELSE AggFrom(AggStep(agg, n, Head(commits)), n, Tail(commits))
EmptyAgg == [b \in {} |-> 0]
Aggregate(commits, n) == AggFrom(EmptyAgg, n, commits)

\* display, line 165-171: maxY starts at 0 and is raised by every larger y
RECURSIVE MaxOver(_, _, _)
MaxOver(agg, S, m) ==
  IF S = {} THEN m
  ELSE LET x == CHOOSE x \in S : TRUE
       IN  MaxOver(agg, S \ {x}, IF agg[x] > m THEN agg[x] ELSE m)
MaxY(agg) == MaxOver(agg, DOMAIN agg, 0)

\* mutant of InsertByX: the less function of line 179 compares a.X > b.X
RECURSIVE InsertByXDesc(_, _)
InsertByXDesc(data, pt) ==
  IF data = <<>> THEN <<pt>>
  ELSE IF pt[1] > Head(data)[1] THEN <<pt>> \o data
  ELSE <<Head(data)>> \o InsertByXDesc(Tail(data), pt)

\* display, line 177-180: sort.Slice by X; insertion of one point
RECURSIVE InsertByX(_, _)
InsertByX(data, pt) ==
  IF data = <<>> THEN <<pt>>
  ELSE IF pt[1] < Head(data)[1] THEN <<pt>> \o data
  ELSE <<Head(data)>> \o InsertByX(Tail(data), pt)

\* display, line 166-180: the points of agg, in whatever order the map
\* yields them, sorted by X
RECURSIVE SortedData(_, _)
SortedData(agg, S) ==
  IF S = {} THEN <<>>
  ELSE LET x == CHOOSE x \in S : TRUE
       IN  InsertByX(SortedData(agg, S \ {x}), <<x, agg[x]>>)

NoPlot == [drawn |-> FALSE, agg |-> EmptyAgg, data |-> <<>>, maxY |-> 0]
\* display, line 152-215: what is handed to the plotter
Display(c, n) ==
  LET agg == Aggregate(c.Commits, n)
  IN  [drawn |-> TRUE, agg |-> agg, data |-> SortedData(agg, DOMAIN agg), maxY |-> MaxY(agg)]

NoChart == [Name |-> "", Commits |-> <<>>]

\* -------------------------------------------------------------------- run
\* mutant of NeedsFetch: the check of line 108 is missing
NeedsFetchAlways(c) == TRUE

\* run, line 108: the loop body is skipped for a chart that has commits
NeedsFetch(c) == Len(c.Commits) = 0

\* mutant of MustSave: Save is called unconditionally
MustSaveAlways(upd) == TRUE

\* run, line 136: if updated
MustSave(upd) == upd

\* mutant of AppendAll: every commit replaces the list instead of extending it
AppendLast(c, h) == [c EXCEPT !.Commits = <<h[Len(h)]>>]

\* run, line 127-130: ForEach appends every commit time to ch.Commits
AppendAll(c, h) == [c EXCEPT !.Commits = @ \o h]

NoClones == [u \in Keys |-> 0]
NoneProvided == [u \in Keys |-> <<>>]

\* values of the variables of the other specifications while run() executes
IdleTick == [called |-> FALSE, min |-> 0, max |-> 0, panics |-> FALSE, list |-> <<>>]
IdleClean == [name |-> <<>>, out |-> <<>>]
IdleTrip == [stage |-> "idle"]

\* state of a process that has not yet called Load
ProcessStart ==
  /\ pc = "start" /\ err = "none"
  /\ urlLookup = InitialLookup
  /\ updated = FALSE /\ pending = {} /\ clones = NoClones /\ saves = 0
  /\ toRender = {} /\ rendered = {} /\ cached = {}
  /\ ch = NoChart /\ now = 0 /\ plot = NoPlot
  /\ snapshot = EmptyDoc /\ provided = NoneProvided /\ partial = {}

Init ==
  /\ ProcessStart
  /\ file \in InitFiles
  /\ persisted = FileHolds(file) /\ everFilled = {}
  /\ tick = IdleTick /\ clean = IdleClean /\ trip = IdleTrip

\* run returns err: line 104, 116, 120, 124, 132, 139, 146
Fail(e) == pc' = "error" /\ err' = e

\* line 102-106: Load returns nil
LoadOk ==
  /\ pc = "start" /\ ~LoadFails(file) /\ NilKeys(urlLookup, file) = {}
  /\ urlLookup' = Loaded(urlLookup, file)
  /\ pc' = "fetch" /\ updated' = FALSE /\ pending' = Keys
  /\ cached' = {u \in Keys : Len(urlLookup'[u].Commits) > 0}
  /\ UNCHANGED <<pureVars, err, file, clones, saves, toRender, rendered, persisted, everFilled, ch, now, plot>>
  /\ snapshot' = file.doc
  /\ UNCHANGED <<provided, partial>>

\* line 102-105: Load returns the open or decode error
LoadError ==
  /\ pc = "start" /\ LoadFails(file)
  /\ Fail("load")
  /\ UNCHANGED <<pureVars, urlLookup, file, updated, pending, clones, saves, toRender,
                 rendered, cached, persisted, everFilled, ch, now, plot>>
  /\ UNCHANGED <<snapshot, provided, partial>>

\* line 68 with v = nil: the process panics; the range loop of line 63 may
\* have merged any of the other keys before it reaches a nil one
LoadPanic ==
  /\ pc = "start" /\ ~LoadFails(file) /\ NilKeys(urlLookup, file) # {}
  /\ \E S \in SUBSET (Keys \ NilKeys(urlLookup, file)) :
       urlLookup' = MergeKeys(urlLookup, file.doc, S)
  /\ pc' = "panic"
  /\ UNCHANGED <<pureVars, err, file, updated, pending, clones, saves, toRender,
                 rendered, cached, persisted, everFilled, ch, now, plot>>
  /\ snapshot' = file.doc
  /\ UNCHANGED <<provided, partial>>

\* line 107-110: an iteration for a chart that has commits
Skip(u) ==
  /\ pc = "fetch" /\ u \in pending /\ ~NeedsFetch(urlLookup[u])
  /\ pending' = pending \ {u}
  /\ UNCHANGED <<pureVars, pc, err, urlLookup, file, updated, clones, saves, toRender,
                 rendered, cached, persisted, everFilled, ch, now, plot>>
  /\ UNCHANGED <<snapshot, provided, partial>>

\* line 111-134: clone, head, log and iteration succeed with history h
FetchOk(u, h) ==
  /\ pc = "fetch" /\ u \in pending /\ NeedsFetch(urlLookup[u])
  /\ clones' = [clones EXCEPT ![u] = @ + 1]
  /\ urlLookup' = [urlLookup EXCEPT ![u] = AppendAll(@, h)]
  /\ updated' = TRUE
  /\ pending' = pending \ {u}
  /\ UNCHANGED <<pureVars, pc, err, file, saves, toRender, rendered, cached, persisted,
                 everFilled, ch, now, plot>>
  /\ provided' = [provided EXCEPT ![u] = h]
  /\ UNCHANGED <<snapshot, partial>>

\* mutant of FetchFail: the error is kept but the loop goes on to the next key
FetchFailContinue(u) ==
  /\ pc = "fetch" /\ u \in pending /\ NeedsFetch(urlLookup[u])
  /\ clones' = [clones EXCEPT ![u] = @ + 1]
  /\ err' = "fetch"
  /\ pending' = pending \ {u}
  /\ UNCHANGED <<pureVars, pc, urlLookup, file, updated, saves, toRender, rendered,
                 cached, persisted, everFilled, ch, now, plot>>
  /\ UNCHANGED <<snapshot, provided, partial>>

\* line 112-125: git.Clone, r.Head or r.Log returns an error
FetchFail(u) ==
  /\ pc = "fetch" /\ u \in pending /\ NeedsFetch(urlLookup[u])
  /\ clones' = [clones EXCEPT ![u] = @ + 1]
  /\ Fail("fetch")
  /\ UNCHANGED <<pureVars, urlLookup, file, updated, pending, saves, toRender, rendered,
                 cached, persisted, everFilled, ch, now, plot>>
  /\ UNCHANGED <<snapshot, provided, partial>>

\* mutant of FetchPartial: the error of ForEach is dropped, the loop goes on
FetchPartialContinue(u, h, k) ==
  /\ pc = "fetch" /\ u \in pending /\ NeedsFetch(urlLookup[u])
  /\ k \in 1..Len(h)
  /\ clones' = [clones EXCEPT ![u] = @ + 1]
  /\ urlLookup' = [urlLookup EXCEPT ![u] = AppendAll(@, SubSeq(h, 1, k))]
  /\ updated' = TRUE
  /\ pending' = pending \ {u}
  /\ partial' = partial \cup {u}
  /\ UNCHANGED <<pureVars, pc, err, file, saves, toRender, rendered, cached,
                 persisted, everFilled, ch, now, plot, snapshot, provided>>

\* line 127-133: ForEach returns an error after the first k commits of h
\* were appended
FetchPartial(u, h, k) ==
  /\ pc = "fetch" /\ u \in pending /\ NeedsFetch(urlLookup[u])
  /\ k \in 1..Len(h)
  /\ clones' = [clones EXCEPT ![u] = @ + 1]
  /\ urlLookup' = [urlLookup EXCEPT ![u] = AppendAll(@, SubSeq(h, 1, k))]
  /\ Fail("fetch")
  /\ UNCHANGED <<pureVars, file, updated, pending, saves, toRender, rendered, cached,
                 persisted, everFilled, ch, now, plot>>
  /\ partial' = partial \cup {u}
  /\ UNCHANGED <<snapshot, provided>>

\* line 136: the loop is over and nothing was fetched
NoSave ==
  /\ pc = "fetch" /\ pending = {} /\ ~MustSave(updated)
  /\ pc' = "render" /\ toRender' = Keys
  /\ UNCHANGED <<pureVars, err, urlLookup, file, updated, pending, clones, saves,
                 rendered, cached, persisted, everFilled, ch, now, plot>>
  /\ UNCHANGED <<snapshot, provided, partial>>

\* mutant of SaveOk: Save is called as soon as something was fetched
SaveOkEarly ==
  /\ pc = "fetch" /\ MustSave(updated)
  /\ saves' = saves + 1
  /\ file' = Doc(Encode(urlLookup))
  /\ persisted' = persisted \cup FileHolds(file')
  /\ pc' = "render" /\ toRender' = Keys
  /\ UNCHANGED <<pureVars, err, urlLookup, updated, pending, clones, rendered,
                 cached, everFilled, ch, now, plot, snapshot, provided, partial>>

\* line 136-141, 72-87: Save returns nil, the file holds the whole store
SaveOk ==
  /\ pc = "fetch" /\ pending = {} /\ MustSave(updated)
  /\ saves' = saves + 1
  /\ file' = Doc(Encode(urlLookup))
  /\ persisted' = persisted \cup FileHolds(file')
  /\ pc' = "render" /\ toRender' = Keys
  /\ UNCHANGED <<pureVars, err, urlLookup, updated, pending, clones, rendered, cached,
                 everFilled, ch, now, plot>>
  /\ UNCHANGED <<snapshot, provided, partial>>

\* mutant of SaveCreateFails: the error of Save is kept but run goes on
SaveCreateFailsIgnored ==
  /\ pc = "fetch" /\ pending = {} /\ MustSave(updated)
  /\ saves' = saves + 1
  /\ err' = "save"
  /\ pc' = "render" /\ toRender' = Keys
  /\ UNCHANGED <<pureVars, urlLookup, file, updated, pending, clones, rendered,
                 cached, persisted, everFilled, ch, now, plot, snapshot,
                 provided, partial>>

\* line 73-76: os.Create fails, the file is as it was
SaveCreateFails ==
  /\ pc = "fetch" /\ pending = {} /\ MustSave(updated)
  /\ saves' = saves + 1
  /\ Fail("save")
  /\ UNCHANGED <<pureVars, urlLookup, file, updated, pending, clones, toRender, rendered,
                 cached, persisted, everFilled, ch, now, plot>>
  /\ UNCHANGED <<snapshot, provided, partial>>

\* line 77-85: the file was truncated by os.Create, then Encode or Close
\* fails: the file holds the whole document or a part that does not decode
SaveWriteFails ==
  /\ pc = "fetch" /\ pending = {} /\ MustSave(updated)
  /\ saves' = saves + 1
  /\ file' \in {Corrupt, Doc(Encode(urlLookup))}
  /\ persisted' = persisted \cup FileHolds(file')
  /\ Fail("save")
  /\ UNCHANGED <<pureVars, urlLookup, updated, pending, clones, toRender, rendered,
                 cached, everFilled, ch, now, plot>>
  /\ UNCHANGED <<snapshot, provided, partial>>

\* line 143-148, 152-223: display(ch) returns nil
Render(u, n) ==
  /\ pc = "render" /\ u \in toRender
  /\ ch' = urlLookup[u] /\ now' = n
  /\ plot' = Display(ch', n)
  /\ toRender' = toRender \ {u}
  /\ rendered' = rendered \cup {u}
  /\ UNCHANGED <<pureVars, pc, err, urlLookup, file, updated, pending, clones, saves,
                 cached, persisted, everFilled>>
  /\ UNCHANGED <<snapshot, provided, partial>>

\* line 206-209, 218-221: NewLinePoints or p.Save returns an error
RenderFail(u, n) ==
  /\ pc = "render" /\ u \in toRender
  /\ ch' = urlLookup[u] /\ now' = n
  /\ plot' = [Display(ch', n) EXCEPT !.drawn = FALSE]
  /\ Fail("render")
  /\ UNCHANGED <<pureVars, urlLookup, file, updated, pending, clones, saves, toRender,
                 rendered, cached, persisted, everFilled>>
  /\ UNCHANGED <<snapshot, provided, partial>>

\* line 149
Return ==
  /\ pc = "render" /\ toRender = {}
  /\ pc' = "done"
  /\ UNCHANGED <<pureVars, err, urlLookup, file, updated, pending, clones, saves,
                 toRender, rendered, cached, persisted, everFilled, ch, now, plot>>
  /\ UNCHANGED <<snapshot, provided, partial>>

\* the process has ended; the next run is a new process over the same file
NewRun ==
  /\ pc \in {"done", "error", "panic"}
  /\ everFilled' = everFilled \cup {u \in Keys : Len(urlLookup[u].Commits) > 0}
  /\ pc' = "start" /\ err' = "none"
  /\ urlLookup' = InitialLookup
  /\ updated' = FALSE /\ pending' = {} /\ clones' = NoClones /\ saves' = 0
  /\ toRender' = {} /\ rendered' = {} /\ cached' = {}
  /\ ch' = NoChart /\ now' = 0 /\ plot' = NoPlot
  /\ UNCHANGED <<pureVars, file, persisted>>
  /\ snapshot' = EmptyDoc /\ provided' = NoneProvided /\ partial' = {}

Next ==
  \/ LoadOk
  \/ LoadError
  \/ LoadPanic
  \/ \E u \in Keys : Skip(u)
  \/ \E u \in Keys, h \in Histories : FetchOk(u, h)
  \/ \E u \in Keys : FetchFail(u)
  \/ \E u \in Keys, h \in Histories, k \in 1..MaxHistory : FetchPartial(u, h, k)
  \/ NoSave
  \/ SaveOk
  \/ SaveCreateFails
  \/ SaveWriteFails
  \/ \E u \in Keys, n \in RunNows : Render(u, n)
  \/ \E u \in Keys, n \in RunNows : RenderFail(u, n)
  \/ Return
  \/ NewRun

Spec == Init /\ [][Next]_vars

TypeOK ==
  /\ pc \in {"start", "fetch", "render", "done", "error", "panic"}
  /\ DOMAIN urlLookup = Keys
  /\ saves \in 0..1

\* ------------------------------------------------- display on any commits
\* a display() call on an arbitrary chart: the rest of the process is at the
\* render loop and plays no part
InitAgg ==
  /\ pc = "render" /\ err = "none"
  /\ urlLookup = InitialLookup
  /\ file = Absent
  /\ updated = FALSE /\ pending = {} /\ clones = NoClones /\ saves = 0
  /\ toRender = {} /\ rendered = {} /\ cached = {}
  /\ persisted = {} /\ everFilled = {}
  /\ ch \in {[Name |-> ConfigNames[Daemon], Commits |-> c] : c \in SeqsUpTo(AggTimes, MaxCommits)}
  /\ now = 0 /\ plot = NoPlot
  /\ snapshot = EmptyDoc /\ provided = NoneProvided /\ partial = {}
  /\ tick = IdleTick /\ clean = IdleClean /\ trip = IdleTrip

\* line 152-215 on ch, the clock reading n
DisplayCall(n) ==
  /\ ~plot.drawn
  /\ now' = n
  /\ plot' = Display(ch, n)
  /\ UNCHANGED <<pureVars, pc, err, urlLookup, file, updated, pending, clones, saves,
                 toRender, rendered, cached, persisted, everFilled, ch>>
  /\ UNCHANGED <<snapshot, provided, partial>>

NextAgg == \E n \in AggNows : DisplayCall(n)

SpecAgg == InitAgg /\ [][NextAgg]_vars

\* ------------------------------------------------- the tick function alone
\* the state of run() in the specifications of single functions
OutsideRun ==
  /\ pc = "render" /\ err = "none"
  /\ urlLookup = InitialLookup
  /\ file = Absent
  /\ updated = FALSE /\ pending = {} /\ clones = NoClones /\ saves = 0
  /\ toRender = {} /\ rendered = {} /\ cached = {}
  /\ persisted = {} /\ everFilled = {}
  /\ ch = NoChart /\ now = 0 /\ plot = NoPlot
  /\ snapshot = EmptyDoc /\ provided = NoneProvided /\ partial = {}

\* line 184: int((max-min)/GroupSize); the float64 arguments hold whole
\* numbers (below 2^53 in magnitude) and int() truncates toward zero
TickCount(min, max) == GoDiv(max - min, GroupSize)

\* mutant of TickLabel: the label test counts ticks from 1
TickLabelFromOne(i) == IF (i + 1) % 13 = 0 THEN "|" ELSE ""

\* line 186-189, i the index into list (from 0)
TickLabel(i) == IF i % 13 = 0 THEN "|" ELSE ""

\* line 183-196: make panics on a negative length
Ticks(min, max) ==
  LET n == TickCount(min, max)
  IN  IF n < 0
      THEN [called |-> TRUE, min |-> min, max |-> max, panics |-> TRUE, list |-> <<>>]
      ELSE [called |-> TRUE, min |-> min, max |-> max, panics |-> FALSE,
            list |-> [i \in 1..n |-> [Value |-> min + GroupSize * (i - 1), Label |-> TickLabel(i - 1)]]]

\* axis ranges: whole weeks and ranges one second off whole weeks, from
\* minima on and off a week boundary, and some ranges with max < min
TickMins == {-GroupSize, 0, 5}
TickSpans == {k * GroupSize + r : k \in 0..MaxWeeks, r \in {0, 1, GroupSize - 1}}
             \cup {-1, -GroupSize, -GroupSize - 1}

InitTicks ==
  /\ OutsideRun
  /\ tick \in {[called |-> FALSE, min |-> m, max |-> m + d, panics |-> FALSE, list |-> <<>>] :
                 m \in TickMins, d \in TickSpans}
  /\ clean = IdleClean /\ trip = IdleTrip

\* the plotter calls the TickerFunc of line 183 with the axis range
TickCall ==
  /\ ~tick.called
  /\ tick' = Ticks(tick.min, tick.max)
  /\ UNCHANGED <<pc, err, urlLookup, file, updated, pending, clones, saves,
                 toRender, rendered, cached, persisted, everFilled, ch, now,
                 plot, snapshot, provided, partial, clean, trip>>

NextTicks == TickCall

SpecTicks == InitTicks /\ [][NextTicks]_vars

\* ---------------------------------------------------- cleanFilename alone
\* A display name is the sequence of its characters.

\* mutant of Cleaner: the colon is replaced by an underscore
CleanerColonUnderscore(c) ==
  CASE c = " " -> "_"
    [] c = ":" -> "_"
    [] c = "\\" -> "-"
    [] c = "/" -> "-"
    [] OTHER -> c

\* mutant of Cleaner: the backslash is turned into a slash
CleanerBackslashToSlash(c) ==
  CASE c = " " -> "_"
    [] c = ":" -> "-"
    [] c = "\\" -> "/"
    [] c = "/" -> "-"
    [] OTHER -> c

\* line 225-230: the replacer's table; every old and new string is one byte
Cleaner(c) ==
  CASE c = " " -> "_"
    [] c = ":" -> "-"
    [] c = "\\" -> "-"
    [] c = "/" -> "-"
    [] OTHER -> c

\* line 232-234: cleaner.Replace(name) substitutes byte by byte
cleanFilename(name) == [i \in 1..Len(name) |-> Cleaner(name[i])]

\* "DDE Session Shell: v1/2"
ScenarioName == <<"D", "D", "E", " ", "S", "e", "s", "s", "i", "o", "n", " ",
                  "S", "h", "e", "l", "l", ":", " ", "v", "1", "/", "2">>
\* "DDE Session Shell", the Name of line 97
ShellName == SubSeq(ScenarioName, 1, 17)

\* the four replaced characters, their replacements and another character
NameChars == {" ", ":", "\\", "/", "_", "-", "a"}
Names == SeqsUpTo(NameChars, MaxNameLen) \cup {ScenarioName, ShellName}

InitClean ==
  /\ OutsideRun
  /\ clean \in {[name |-> n, out |-> <<>>] : n \in Names}
  /\ tick = IdleTick /\ trip = IdleTrip

\* cleanFilename is applied to the name, then to its own result
CleanCall ==
  /\ Len(clean.out) < 2
  /\ clean' = [clean EXCEPT !.out =
                 Append(@, cleanFilename(IF @ = <<>> THEN clean.name ELSE @[Len(@)]))]
  /\ UNCHANGED <<pc, err, urlLookup, file, updated, pending, clones, saves,
                 toRender, rendered, cached, persisted, everFilled, ch, now,
                 plot, snapshot, provided, partial, tick, trip>>

NextClean == CleanCall

SpecClean == InitClean /\ [][NextClean]_vars

\* ------------------------------------------------ Save, Load, Save alone
\* Here a time.Time is [hour, off]: the instant and the offset of its zone,
\* both in hours since the epoch resp. east of UTC (whole hours, so that the
\* year 10000 is within TLC's integers); a []time.Time is [nil, elems], a nil
\* slice or a (possibly empty) non-nil one.  Spec keeps only the epoch
\* seconds of UTC times, for which the encoding below is one-to-one.

\* first hour of the year 10000: 253402300800 / 3600
Year10000 == 70389528

\* Time.MarshalJSON: RFC 3339 text, the wall clock of the zone and its offset
EncodeTime(t) == [wall |-> t.hour + t.off, off |-> t.off]

\* Time.MarshalJSON fails for a year outside 0..9999 in the time's zone
EncodeTimeFails(t) == t.hour + t.off >= Year10000

\* mutant of DecodeTime: the zone offset of the text is ignored
DecodeTimeUTC(j) == [hour |-> j.wall, off |-> 0]

\* Time.UnmarshalJSON: the instant and the offset the text denotes
DecodeTime(j) == [hour |-> j.wall - j.off, off |-> j.off]

\* encoding/json on a []time.Time: a nil slice is null, any other an array
EncodeSlice(c) == [null |-> c.nil, items |-> [i \in 1..Len(c.elems) |-> EncodeTime(c.elems[i])]]
\* decoding into the zero chart of line 58: null leaves the slice nil
DecodeSlice(j) == [nil |-> j.null, elems |-> [i \in 1..Len(j.items) |-> DecodeTime(j.items[i])]]

\* line 77-78: Encode(ft) fails when a time cannot be marshalled
EncodeFails(ft) ==
  \E key \in DOMAIN ft : \E i \in 1..Len(ft[key].Commits.elems) :
    EncodeTimeFails(ft[key].Commits.elems[i])

\* line 77-78: the JSON object, one member per key (the encoder sorts them)
EncodeJSON(ft) == [key \in DOMAIN ft |-> [Name |-> ft[key].Name, Commits |-> EncodeSlice(ft[key].Commits)]]

\* line 57-59: Decode into a fresh FileType
DecodeJSON(doc) == [key \in DOMAIN doc |-> [Name |-> doc[key].Name, Commits |-> DecodeSlice(doc[key].Commits)]]

\* line 47-71 on a file that Save wrote
LoadJSON(ft, doc) == MergeKeys(ft, DecodeJSON(doc), DOMAIN ft)

NilSlice == [nil |-> TRUE, elems |-> <<>>]
\* urlLookup at process start, with its nil slices
InitialStore == [u \in Keys |-> [Name |-> ConfigNames[u], Commits |-> NilSlice]]

\* times of stores in SpecCache: UTC, a zone east of UTC, and a time whose
\* zone puts it in the year 10000
TripTimes == {[hour |-> 0, off |-> 0], [hour |-> 0, off |-> 8],
              [hour |-> Year10000 - 1, off |-> 1]}
TripSlices == {NilSlice} \cup {[nil |-> FALSE, elems |-> e] : e \in SeqsUpTo(TripTimes, MaxTripLen)}
TripStores == {[u \in Keys |-> [Name |-> ConfigNames[u], Commits |-> c[u]]] : c \in [Keys -> TripSlices]}

NoFile == [written |-> FALSE, doc |-> EmptyDoc]

InitCache ==
  /\ OutsideRun
  /\ trip \in {[stage |-> "start", ft |-> st, first |-> NoFile, second |-> NoFile] : st \in TripStores}
  /\ tick = IdleTick /\ clean = IdleClean

tripKeep == <<pc, err, urlLookup, file, updated, pending, clones, saves,
              toRender, rendered, cached, persisted, everFilled, ch, now,
              plot, snapshot, provided, partial, tick, clean>>

\* line 72-87: Save of the store returns nil
TripSave ==
  /\ trip.stage = "start" /\ ~EncodeFails(trip.ft)
  /\ trip' = [trip EXCEPT !.stage = "saved", !.first = [written |-> TRUE, doc |-> EncodeJSON(trip.ft)]]
  /\ UNCHANGED tripKeep

\* line 78-82: Encode returns an error, Save returns it
TripSaveFails ==
  /\ trip.stage \in {"start", "loaded"} /\ EncodeFails(trip.ft)
  /\ trip' = [trip EXCEPT !.stage = IF @ = "start" THEN "failed" ELSE "refailed"]
  /\ UNCHANGED tripKeep

\* line 47-71: Load of the saved file into a store of the same configuration
TripLoad ==
  /\ trip.stage = "saved"
  /\ trip' = [trip EXCEPT !.stage = "loaded", !.ft = LoadJSON(InitialStore, trip.first.doc)]
  /\ UNCHANGED tripKeep

\* line 72-87: Save of the loaded store returns nil
TripSaveAgain ==
  /\ trip.stage = "loaded" /\ ~EncodeFails(trip.ft)
  /\ trip' = [trip EXCEPT !.stage = "resaved", !.second = [written |-> TRUE, doc |-> EncodeJSON(trip.ft)]]
  /\ UNCHANGED tripKeep

NextCache == TripSave \/ TripSaveFails \/ TripLoad \/ TripSaveAgain

SpecCache == InitCache /\ [][NextCache]_vars

\* ================================================================= claims

\* C1: an identifier whose commits are non-empty when Load returns is never
\* cloned during that run, whatever happens to the other identifiers.
FetchOnceInRun == \A u \in cached : clones[u] = 0

\* C1 witness: a run ended in which one identifier came from the cache and
\* another one was cloned
FetchOnceInRunWitness ==
  /\ pc = "done"
  /\ \E u \in cached, v \in Keys \ cached : clones[u] = 0 /\ clones[v] = 1

\* C2 as stated: an identifier whose in-memory commits were non-empty in an
\* earlier run is not cloned in a later run.
NoRefetchOnceFilled == \A u \in everFilled : clones[u] = 0

\* C2 amended: no clone is ever started for an identifier that the cache
\* file has held with non-empty commits.
NoRefetchOncePersisted ==
  [][\A u \in Keys : clones'[u] > clones[u] => u \notin persisted]_vars

\* C2 witness: a later run over a file that holds some identifiers clones
\* another identifier and leaves the persisted ones alone
NoRefetchOncePersistedWitness ==
  /\ everFilled # {} /\ pc = "done"
  /\ \E u \in persisted \cap cached, v \in Keys \ cached : clones[u] = 0 /\ clones[v] = 1

\* C3: right after Load of a file that decodes, every configured key of the
\* snapshot has the snapshot's commits, every other configured key is still
\* empty, and the store has exactly the configured keys.
LoadMergeCorrect ==
  (pc = "fetch" /\ pending = Keys /\ file.kind = "doc") =>
    /\ DOMAIN urlLookup = Keys
    /\ \A u \in Keys :
         IF u \in DOMAIN file.doc
         THEN urlLookup[u].Commits = file.doc[u].Commits
         ELSE urlLookup[u].Commits = <<>>

\* C3 witness: Load has just merged a snapshot with a stale key, a populated
\* configured key and a configured key it does not hold
LoadMergeCorrectWitness ==
  /\ pc = "fetch" /\ pending = Keys /\ file.kind = "doc"
  /\ Stale \in DOMAIN file.doc
  /\ \E u \in Keys \cap DOMAIN file.doc : Len(urlLookup[u].Commits) = 2
  /\ \E v \in Keys : v \notin DOMAIN file.doc

\* C4: Save is called only in a run that cloned something; a run whose
\* identifiers were all non-empty after Load never calls Save.
SaveOnlyAfterFetch ==
  /\ saves > 0 => \E u \in Keys : clones[u] > 0
  /\ cached = Keys => saves = 0

\* C4 witness: a fully cached run has rendered and ended
SaveOnlyAfterFetchWitness == cached = Keys /\ pc = "done" /\ rendered = Keys

\* C5: when the file cannot be opened (other than absent) or decoded, Load
\* returns the error with the store unchanged and the run ends in error
\* without any clone, Save or render.
CacheReadErrorFatal ==
  /\ [][(pc = "start" /\ file.kind \in {"unreadable", "corrupt"}) =>
          (pc' = "error" /\ err' = "load" /\ urlLookup' = urlLookup)]_vars
  /\ [](err = "load" =>
          /\ pc = "error" /\ urlLookup = InitialLookup
          /\ clones = NoClones /\ saves = 0 /\ rendered = {} /\ ~plot.drawn)

\* C5 witness: a run ended on a decode error of a file a failed Save left
CacheReadErrorFatalWitness ==
  /\ err = "load" /\ pc = "error" /\ file.kind = "corrupt" /\ everFilled # {}

\* C6: when the file is absent, Load returns nil with the store unchanged
\* and all commits empty, and the run goes on to clone every identifier.
AbsentFileIsNoError ==
  /\ [][(pc = "start" /\ file.kind = "absent") =>
          /\ pc' = "fetch" /\ err' = "none" /\ urlLookup' = urlLookup
          /\ pending' = Keys /\ cached' = {}
          /\ \A u \in Keys : urlLookup'[u].Commits = <<>>]_vars
  /\ []((file.kind = "absent" /\ pc = "fetch") =>
          \A u \in Keys \ pending : clones[u] = 1)

\* C6 witness: over an absent file the loop has cloned every identifier
AbsentFileIsNoErrorWitness ==
  /\ file.kind = "absent" /\ pc = "fetch" /\ pending = {}
  /\ \A u \in Keys : clones[u] = 1

\* C7: when the provider fails for an identifier the run is in error at
\* once: nothing is cloned afterwards, Save is not called, nothing is
\* rendered, and the process does nothing more.
FetchErrorFailFast ==
  /\ [](err = "fetch" =>
          /\ pc = "error" /\ saves = 0 /\ rendered = {} /\ ~plot.drawn)
  /\ [][err = "fetch" => (pc' = "start" /\ file' = file)]_vars
  /\ [][(err = "none" /\ err' = "fetch") =>
          /\ \E u \in pending : /\ clones'[u] = clones[u] + 1
                                /\ \A v \in Keys \ {u} : clones'[v] = clones[v]
          /\ pending' = pending]_vars

\* C7 witness: the provider failed for the second identifier of the loop
\* while a third one was still to be visited
FetchErrorFailFastWitness ==
  /\ err = "fetch" /\ pc = "error"
  /\ Cardinality(pending) = 2
  /\ \E u \in Keys \ pending, v \in pending, w \in pending :
       clones[u] = 1 /\ clones[v] = 1 /\ clones[w] = 0

\* indexes of the commits of ch that are not after the clock reading
NonFuture == {i \in 1..Len(ch.Commits) : ch.Commits[i] <= now}

\* floor(epoch_seconds(t) / W) * W
FloorStart(t) == (t \div GroupSize) * GroupSize

\* C8: every commit that is not discarded is counted in the bucket
\* floor(epoch(t) / W) * W, also for negative epoch seconds, so commits of
\* the same floor week share one bucket.
WeeklyBucketIsFloor ==
  plot.drawn =>
    \A i \in NonFuture :
      LET b == FloorStart(ch.Commits[i])
      IN  /\ b \in DOMAIN plot.agg
          /\ plot.agg[b] = Cardinality({j \in NonFuture : FloorStart(ch.Commits[j]) = b})

\* C9: a commit after the clock reading adds to no bucket and not to the
\* maximum; every commit at or before the clock reading is counted once, in
\* one bucket.
FutureExcluded ==
  plot.drawn =>
    /\ DOMAIN plot.agg = {BucketStart(ch.Commits[i]) : i \in NonFuture}
    /\ \A b \in DOMAIN plot.agg :
         plot.agg[b] = Cardinality({i \in NonFuture : BucketStart(ch.Commits[i]) = b})
    /\ \A b \in DOMAIN plot.agg : plot.agg[b] <= plot.maxY
    /\ IF NonFuture = {} THEN plot.maxY = 0
       ELSE \E b \in DOMAIN plot.agg : plot.agg[b] = plot.maxY

\* C9 witness: display ran on commits before, at and after the clock reading
FutureExcludedWitness ==
  /\ plot.drawn
  /\ \E i, j, k \in 1..Len(ch.Commits) :
       ch.Commits[i] < now /\ ch.Commits[j] = now /\ ch.Commits[k] > now

RECURSIVE SumY(_)
SumY(data) == IF data = <<>> THEN 0 ELSE Head(data)[2] + SumY(Tail(data))

\* C10: the emitted points are one per bucket that got a non-future commit,
\* none with count 0, strictly ascending by bucket start; the counts sum to
\* the number of non-future commits and the maximum is the largest count (0
\* without points); commits at 0, 86400, 604800, 608400 seen from far in the
\* future give (0, 2), (604800, 2) and maximum 2.
AggregationResult ==
  plot.drawn =>
    LET data == plot.data
        idx == 1..Len(data)
    IN  /\ {data[i][1] : i \in idx} = {BucketStart(ch.Commits[i]) : i \in NonFuture}
        /\ \A i \in idx : data[i][2] >= 1
        /\ \A i \in idx : i < Len(data) => data[i][1] < data[i + 1][1]
        /\ SumY(data) = Cardinality(NonFuture)
        /\ \A i \in idx : data[i][2] <= plot.maxY
        /\ IF data = <<>> THEN plot.maxY = 0 ELSE \E i \in idx : data[i][2] = plot.maxY
        /\ (ch.Commits = <<0, 86400, 604800, 604800 + 3600>> /\ now = 100 * GroupSize) =>
             (data = <<<<0, 2>>, <<604800, 2>>>> /\ plot.maxY = 2)

\* C10 witness: display ran on the four commits of the scenario
AggregationResultWitness ==
  /\ plot.drawn
  /\ ch.Commits = <<0, 86400, 604800, 604800 + 3600>> /\ now = 100 * GroupSize

\* C11: for max >= min the tick function returns floor((max - min) / W)
\* ticks, tick i (from 0) at min + i * W, labelled exactly when i mod 13 = 0;
\* for max = min it returns no tick and does not fail.
TickGeneration ==
  (tick.called /\ tick.max >= tick.min) =>
    /\ ~tick.panics
    /\ Len(tick.list) = (tick.max - tick.min) \div GroupSize
    /\ \A i \in 1..Len(tick.list) :
         /\ tick.list[i].Value = tick.min + (i - 1) * GroupSize
         /\ (tick.list[i].Label # "") <=> ((i - 1) % 13 = 0)
         /\ i > 1 => tick.list[i].Value - tick.list[i - 1].Value = GroupSize
    /\ tick.max = tick.min => tick.list = <<>>

\* C11 witness: the function returned more than two labelled ticks for a
\* range that is not a whole number of weeks
TickGenerationWitness ==
  /\ tick.called /\ Len(tick.list) > 26
  /\ (tick.max - tick.min) % GroupSize # 0

\* C12 as stated: cleanFilename("DDE Session Shell: v1/2") =
\* "DDE_Session_Shell--v1-2".
SanitizerScenario ==
  (clean.name = ScenarioName /\ Len(clean.out) >= 1) =>
    clean.out[1] = <<"D", "D", "E", "_", "S", "e", "s", "s", "i", "o", "n", "_",
                     "S", "h", "e", "l", "l", "-", "-", "v", "1", "-", "2">>

\* C12 amended: cleanFilename("DDE Session Shell: v1/2") =
\* "DDE_Session_Shell-_v1-2": the space after the colon becomes '_'.
SanitizerScenarioByTable ==
  (clean.name = ScenarioName /\ Len(clean.out) >= 1) =>
    clean.out[1] = <<"D", "D", "E", "_", "S", "e", "s", "s", "i", "o", "n", "_",
                     "S", "h", "e", "l", "l", "-", "_", "v", "1", "-", "2">>

\* C12 witness: cleanFilename was applied to the scenario's name
SanitizerScenarioWitness == clean.name = ScenarioName /\ Len(clean.out) = 1

\* C13: cleanFilename applied to its own result changes nothing, and its
\* result holds none of the four replaced characters.
SanitizerIdempotent ==
  /\ Len(clean.out) >= 1 =>
       \A i \in 1..Len(clean.out[1]) : clean.out[1][i] \notin {" ", ":", "\\", "/"}
  /\ Len(clean.out) = 2 => clean.out[2] = clean.out[1]

\* C13 witness: cleanFilename was applied twice to a name that holds a
\* backslash, a slash and a colon
SanitizerIdempotentWitness ==
  /\ Len(clean.out) = 2
  /\ {"\\", "/", ":"} \subseteq {clean.name[i] : i \in 1..Len(clean.name)}

\* C14: a store that Save wrote, loaded into a store of the same
\* configuration and saved again gives a file equal to the first one: the
\* same keys, names and commit texts in the same order.
CacheRoundTrip ==
  /\ trip.stage # "refailed"
  /\ trip.stage = "resaved" => trip.second = trip.first

\* C14 witness: the round trip was made with a store that has a nil slice,
\* an empty slice and two commits of different zones
CacheRoundTripWitness ==
  /\ trip.stage = "resaved"
  /\ \E u, v, w \in Keys :
       /\ trip.first.doc[u].Commits.null
       /\ ~trip.first.doc[v].Commits.null /\ trip.first.doc[v].Commits.items = <<>>
       /\ Len(trip.first.doc[w].Commits.items) = 2
       /\ trip.first.doc[w].Commits.items[1].off # trip.first.doc[w].Commits.items[2].off

\* C15: every bucket start display emits, for commits before or after the
\* epoch, is a whole multiple of W.
BucketStartsAligned ==
  plot.drawn =>
    /\ \A b \in DOMAIN plot.agg : b % GroupSize = 0
    /\ \A i \in 1..Len(plot.data) : plot.data[i][1] % GroupSize = 0

\* C15 witness: display emitted a bucket before the epoch and one after it
BucketStartsAlignedWitness ==
  /\ plot.drawn /\ Len(plot.data) >= 2
  /\ plot.data[1][1] < 0 /\ plot.data[Len(plot.data)][1] > 0

\* C16: once Load returned nil and the fetch loop ended without error, every
\* key that was empty after Load was cloned exactly once and holds what the
\* provider returned, no other key was cloned, and Save was called once and
\* wrote the whole store.
FetchMissingThenSave ==
  /\ \A u \in Keys : clones[u] <= 1
  /\ (pc \in {"render", "done"} \/ (pc = "error" /\ err \in {"save", "render"})) =>
       /\ \A u \in Keys :
            IF u \in cached THEN clones[u] = 0
            ELSE /\ clones[u] = 1
                 /\ provided[u] # <<>>
                 /\ urlLookup[u].Commits = provided[u]
       /\ cached # Keys => saves = 1
       /\ (saves = 1 /\ err # "save") =>
            /\ file.kind = "doc"
            /\ DOMAIN file.doc = Keys
            /\ \A u \in Keys : /\ file.doc[u].Commits = urlLookup[u].Commits
                               /\ file.doc[u].Name = urlLookup[u].Name

\* C16 witness: a run that found one key in the cache cloned the two others,
\* one of them with a history of two commits, saved and ended
FetchMissingThenSaveWitness ==
  /\ pc = "done" /\ saves = 1
  /\ Cardinality(cached) = 1
  /\ \E u \in Keys \ cached : Len(provided[u]) = 2

\* C17: when Save fails after all fetches succeeded, the run is in error and
\* nothing is rendered, then or later.
CacheWriteErrorFatal ==
  /\ [](err = "save" =>
          /\ pc = "error" /\ saves = 1
          /\ pending = {} /\ partial = {}
          /\ rendered = {} /\ ch = NoChart /\ ~plot.drawn)
  /\ [][err = "save" => pc' = "start"]_vars

\* C17 witness: Save failed in a run that had cloned every key
CacheWriteErrorFatalWitness ==
  /\ err = "save" /\ pc = "error"
  /\ \A u \in Keys : clones[u] = 1 /\ urlLookup[u].Commits = provided[u]

\* C18: Save is called at most once per run, only when the fetch loop has
\* visited every key and before the first display; nothing is cloned after
\* a Save or after a display.
PhaseOrder ==
  /\ [](saves <= 1)
  /\ [][saves' > saves => (pc = "fetch" /\ pending = {} /\ rendered = {} /\ ch = NoChart)]_vars
  /\ [][(\E u \in Keys : clones'[u] > clones[u]) =>
          (pc = "fetch" /\ saves = 0 /\ rendered = {} /\ ch = NoChart)]_vars
  /\ [][(ch = NoChart /\ ch' # NoChart) => (pending = {} /\ (updated => saves = 1))]_vars

\* C18 witness: a run cloned, saved, rendered every chart and ended
PhaseOrderWitness ==
  /\ pc = "done" /\ saves = 1 /\ rendered = Keys
  /\ \E u \in Keys : clones[u] = 1

\* C19: after ForEach failed part-way the run is in error and never calls
\* Save, so no Save ever writes a commit list of an incomplete fetch.
NoPartialPersisted ==
  /\ [](partial # {} => (pc = "error" /\ err = "fetch" /\ saves = 0))
  /\ [][saves' > saves => (partial = {} /\ partial' = {})]_vars
  /\ [][partial # {} => (pc' = "start" /\ file' = file)]_vars

\* C19 witness: ForEach failed after one of two commits, after another key
\* had been fetched completely
NoPartialPersistedWitness ==
  /\ \E u \in partial : Len(urlLookup[u].Commits) = 1
  /\ \E v \in Keys \ partial : clones[v] = 1 /\ urlLookup[v].Commits = provided[v]

\* C20: the store always has exactly the configured keys with the
\* configured names, and every file a Save writes has exactly those keys
\* and names, without any key that only the previous snapshot had.
KeysAreConfigured ==
  /\ [](/\ DOMAIN urlLookup = Keys
        /\ \A u \in Keys : urlLookup[u].Name = ConfigNames[u])
  /\ [][(saves' > saves /\ file' # file /\ file'.kind = "doc") =>
          /\ DOMAIN file'.doc = Keys
          /\ \A u \in Keys : ~file'.doc[u].isNull /\ file'.doc[u].Name = ConfigNames[u]]_vars

\* C20 witness: Save rewrote a file whose snapshot had a key and a name the
\* configuration does not have
KeysAreConfiguredWitness ==
  /\ saves = 1 /\ pc = "render" /\ file.kind = "doc"
  /\ Stale \in DOMAIN snapshot /\ Stale \notin DOMAIN file.doc
  /\ \E u \in Keys \cap DOMAIN snapshot : snapshot[u].Name # ConfigNames[u]

====
